---- MODULE Spec2Model ----
(***************************************************************************)
(* The service-record cache of src/db/sysdb_services.c: the lookups        *)
(* sysdb_getservbyname / sysdb_getservbyport, the reconciling write        *)
(* sysdb_store_service and the eviction sysdb_svc_delete, over a           *)
(* transactional store of entries addressed by DN.                         *)
(*                                                                         *)
(* Every call runs to completion as one step.  The Store primitives a call *)
(* issues are numbered 1, 2, ... in the order the code issues them; the    *)
(* failure plan fp of a call is the set of numbers whose primitive fails.  *)
(***************************************************************************)
EXTENDS Integers, Sequences, FiniteSets, TLC

VARIABLES db, last, pc

vars == <<db, last, pc>>

----------------------------------------------------------------------------
(* Domains                                                                 *)

\* largest value of the caller's `now` and of time(NULL)
MaxNow == 2
\* largest cache_timeout
MaxTtl == 1
\* how many Store primitives of one call may fail
MaxFails == 1

\* primary names callers store
Names == {"a", "b"}
\* values an alias list is drawn from
AliasVals == {"b", "c"}
\* protocol names
ProtoVals == {"tcp", "udp"}
\* protocol lists callers pass (the empty list included)
ProtoSets == {{}, {"tcp"}, {"udp"}}
\* DNs no sysdb_svc_dn(name) yields: only an out-of-band writer uses them
StrayDns == {"x", "y"}

\* a missing SYSDB_NAME attribute
NoName == "<noname>"
\* a NULL proto argument
NoProto == "<noproto>"
\* a NULL struct ldb_dn *
NoDn == "<nodn>"

EOK == "EOK"
ENOENT == "ENOENT"
EINVAL == "EINVAL"
EEXIST == "EEXIST"
EIO == "EIO"

----------------------------------------------------------------------------
(* The Store: entries by DN.  DOMAIN d is the set of DNs that exist.       *)

EmptyDb == [dn \in {} |-> 0]

DbDel(d, dn) == [x \in (DOMAIN d) \ {dn} |-> d[x]]

DbPut(d, dn, r) == [x \in (DOMAIN d) \cup {dn} |-> IF x = dn THEN r ELSE d[x]]

\* the DN of the service named `name`: name=<name>,cn=services,cn=<domain>,cn=sysdb
sysdb_svc_dn(name) == name

\* all orders in which a search may return the entries of S
RECURSIVE Orders(_)
Orders(S) ==
    IF S = {} THEN {<<>>}
    ELSE UNION {{<<x>> \o o : o \in Orders(S \ {x})} : x \in S}

\* (serviceProtocol=<proto>), or the presence test (serviceProtocol=*)
ProtoMatch(r, proto) ==
    IF proto = NoProto THEN r.protos # {} ELSE proto \in r.protos

\* SYSDB_SVC_BYNAME_FILTER
ByNameSet(d, name, proto) ==
    {dn \in DOMAIN d : /\ ProtoMatch(d[dn], proto)
                       /\ (d[dn].name = name \/ name \in d[dn].aliases)}

\* SYSDB_SVC_BYPORT_FILTER
ByPortSet(d, port, proto) ==
    {dn \in DOMAIN d : ProtoMatch(d[dn], proto) /\ d[dn].port = port}

\* InOrder cut to the first entry of the order
FirstInOrder(S, ord) == SelectSeq(ord, LAMBDA dn : dn \in S /\ dn = ord[1])

\* the entries of S in the order ord lists them
InOrder(S, ord) == SelectSeq(ord, LAMBDA dn : dn \in S)

----------------------------------------------------------------------------
(* The state a call threads through its steps:                             *)
(*   wdb   the store as the open transaction sees it                       *)
(*   n     Store primitives issued so far                                  *)
(*   log   the primitives issued, each with whether it succeeded           *)
(*   ret   the code's `ret`                                                *)
(*   done  `goto done` was taken                                           *)
(*   intx  the code's `in_transaction`                                     *)
(*   upd   the code's `update_dn`                                          *)
(*   res   the code's `res` (DNs of the last search, in order)             *)
(*   path  "add" or "update" once line 359 chose, "" before                *)
(*   cmt   the commit succeeded                                            *)

Start(d) ==
    [wdb |-> d, n |-> 0, log |-> <<>>, ret |-> EOK, done |-> FALSE,
     intx |-> FALSE, upd |-> NoDn, res |-> <<>>, path |-> "", cmt |-> FALSE]

\* the next primitive of the call is one the plan fails
Fails(s, fp) == (s.n + 1) \in fp

Issue(s, op, ok) ==
    [s EXCEPT !.n = @ + 1, !.log = Append(@, <<op, ok>>)]

sysdb_transaction_start(s, fp) ==
    IF Fails(s, fp)
    THEN [Issue(s, "begin", FALSE) EXCEPT !.ret = EIO]
    ELSE [Issue(s, "begin", TRUE) EXCEPT !.ret = EOK]

sysdb_transaction_commit(s, fp) ==
    IF Fails(s, fp)
    THEN [Issue(s, "commit", FALSE) EXCEPT !.ret = EIO]
    ELSE [Issue(s, "commit", TRUE) EXCEPT !.ret = EOK, !.cmt = TRUE]

sysdb_transaction_cancel(s, cancelFails) ==
    Issue(s, "cancel", ~cancelFails)

sysdb_delete_entry(s, fp, dn, ignore_not_found) ==
    IF Fails(s, fp)
    THEN [Issue(s, "delete", FALSE) EXCEPT !.ret = EIO]
    ELSE IF dn \notin DOMAIN s.wdb
    THEN [Issue(s, "delete", ignore_not_found)
             EXCEPT !.ret = IF ignore_not_found THEN EOK ELSE ENOENT]
    ELSE [Issue(s, "delete", TRUE) EXCEPT !.ret = EOK, !.wdb = DbDel(@, dn)]

\* ldb_modify: the entry at dn becomes r
LdbModify(s, fp, dn, r) ==
    IF Fails(s, fp) \/ dn \notin DOMAIN s.wdb
    THEN [Issue(s, "modify", FALSE) EXCEPT !.ret = EIO]
    ELSE [Issue(s, "modify", TRUE) EXCEPT !.ret = EOK, !.wdb[dn] = r]

\* ldb_add: refuses an existing DN and an element without values
LdbAdd(s, fp, dn, r) ==
    IF Fails(s, fp)
    THEN [Issue(s, "add", FALSE) EXCEPT !.ret = EIO]
    ELSE IF dn \in DOMAIN s.wdb
    THEN [Issue(s, "add", FALSE) EXCEPT !.ret = EEXIST]
    ELSE IF r.protos = {}
    THEN [Issue(s, "add", FALSE) EXCEPT !.ret = EINVAL]
    ELSE [Issue(s, "add", TRUE) EXCEPT !.ret = EOK, !.wdb = DbPut(@, dn, r)]

----------------------------------------------------------------------------
(* Lookup                                                                  *)

sysdb_getservbyname(s, fp, name, proto, ord) ==
    IF Fails(s, fp)
    THEN [Issue(s, "search", FALSE) EXCEPT !.ret = EIO, !.res = <<>>]
    ELSE LET found == InOrder(ByNameSet(s.wdb, name, proto), ord)
         IN  [Issue(s, "search", TRUE)
                 EXCEPT !.ret = IF found = <<>> THEN ENOENT ELSE EOK,
                        !.res = found]

\* sysdb_getservbyport without the test of lines 132-134
SearchAnyPort(s, fp, port, proto, ord) ==
    IF Fails(s, fp)
    THEN [Issue(s, "search", FALSE) EXCEPT !.ret = EIO, !.res = <<>>]
    ELSE [Issue(s, "search", TRUE)
             EXCEPT !.ret = IF InOrder(ByPortSet(s.wdb, port, proto), ord) = <<>>
                            THEN ENOENT ELSE EOK,
                    !.res = InOrder(ByPortSet(s.wdb, port, proto), ord)]

sysdb_getservbyport(s, fp, port, proto, ord) ==
    IF port <= 0
    THEN [s EXCEPT !.ret = EINVAL, !.res = <<>>]
    ELSE IF Fails(s, fp)
    THEN [Issue(s, "search", FALSE) EXCEPT !.ret = EIO, !.res = <<>>]
    ELSE LET found == InOrder(ByPortSet(s.wdb, port, proto), ord)
         IN  [Issue(s, "search", TRUE)
                 EXCEPT !.ret = IF found = <<>> THEN ENOENT ELSE EOK,
                        !.res = found]

----------------------------------------------------------------------------
(* The write helpers                                                       *)

\* AddMsg with SYSDB_NAME taken from the alias list when there is one
AddMsgNamedByAlias(primary_name, port, aliases, protocols, wall) ==
    [name |-> IF aliases # {} THEN CHOOSE x \in aliases : TRUE ELSE primary_name,
     port |-> port, aliases |-> aliases, protos |-> protocols,
     created |-> wall, lastUpdate |-> 0, expire |-> 0]

\* the message sysdb_svc_add builds; lastUpdate and cacheExpire are not set yet
AddMsg(primary_name, port, aliases, protocols, wall) ==
    [name |-> primary_name, port |-> port, aliases |-> aliases,
     protos |-> protocols, created |-> wall, lastUpdate |-> 0, expire |-> 0]

sysdb_svc_add(s, fp, primary_name, port, aliases, protocols, wall) ==
    LET dn == sysdb_svc_dn(primary_name)
        t  == LdbAdd(s, fp, dn,
                     AddMsg(primary_name, port, aliases, protocols, wall))
    IN  IF t.ret = EOK THEN [t EXCEPT !.upd = dn] ELSE t

\* UpdateMsg with the creation time written as well
UpdateMsgRecreated(r, port, aliases, protocols) ==
    [r EXCEPT !.port = port,
              !.aliases = IF aliases # {} THEN aliases ELSE @,
              !.protos = protocols,
              !.created = 0]

\* the entry sysdb_svc_update's message turns r into
UpdateMsg(r, port, aliases, protocols) ==
    [r EXCEPT !.port = port,
              !.aliases = IF aliases # {} THEN aliases ELSE @,
              !.protos = protocols]

\* sysdb_svc_update without the test of line 532
UpdateUnchecked(s, fp, dn, port, aliases, protocols) ==
    LdbModify(s, fp, dn,
              IF dn \in DOMAIN s.wdb
              THEN UpdateMsg(s.wdb[dn], port, aliases, protocols)
              ELSE <<>>)

sysdb_svc_update(s, fp, dn, port, aliases, protocols) ==
    IF dn = NoDn \/ protocols = {}
    THEN [s EXCEPT !.ret = EINVAL]
    ELSE LdbModify(s, fp, dn,
                   IF dn \in DOMAIN s.wdb
                   THEN UpdateMsg(s.wdb[dn], port, aliases, protocols)
                   ELSE <<>>)

\* sysdb_svc_remove_alias deleting the whole attribute, not the one value
RemoveAllAliases(s, fp, dn, alias) ==
    LdbModify(s, fp, dn,
              IF dn \in DOMAIN s.wdb THEN [s.wdb[dn] EXCEPT !.aliases = {}] ELSE <<>>)

sysdb_svc_remove_alias(s, fp, dn, alias) ==
    IF dn \in DOMAIN s.wdb /\ alias \notin s.wdb[dn].aliases
    THEN [Issue(s, "modify", FALSE) EXCEPT !.ret = EIO]
    ELSE LdbModify(s, fp, dn,
                   IF dn \in DOMAIN s.wdb
                   THEN [s.wdb[dn] EXCEPT !.aliases = @ \ {alias}]
                   ELSE <<>>)

\* CacheExpire without the test of cache_timeout
CacheExpireAlways(cache_timeout, now) == now + cache_timeout

\* cacheExpire as line 378 computes it
CacheExpire(cache_timeout, now) ==
    IF cache_timeout # 0 THEN now + cache_timeout ELSE 0

\* sysdb_set_entry_attr(update_dn, {lastUpdate, cacheExpire}, SYSDB_MOD_REP)
SetTimes(s, fp, cache_timeout, now) ==
    LdbModify(s, fp, s.upd,
              IF s.upd \in DOMAIN s.wdb
              THEN [s.wdb[s.upd] EXCEPT !.lastUpdate = now,
                                        !.expire = CacheExpire(cache_timeout, now)]
              ELSE <<>>)

\* the `done:` label: cancel when in_transaction
Finish(s, cancelFails) ==
    IF s.intx THEN sysdb_transaction_cancel(s, cancelFails) ELSE s

\* `if (ret != EOK) goto done;`
OrDone(t) == IF t.ret # EOK THEN [t EXCEPT !.done = TRUE] ELSE t

\* `if (ret != EOK && ret != ENOENT) goto done;`
OrDoneUnlessNoent(t) ==
    IF t.ret # EOK /\ t.ret # ENOENT THEN [t EXCEPT !.done = TRUE] ELSE t

\* a corrective delete whose failure leaves through `done`; skipped once done
DeleteOrDone(s, fp, dn) ==
    IF s.done THEN s ELSE OrDone(sysdb_delete_entry(s, fp, dn, TRUE))

----------------------------------------------------------------------------
(* sysdb_store_service                                                     *)

\* Begin going on whatever sysdb_transaction_start returned
BeginUnchecked(s, fp) == [sysdb_transaction_start(s, fp) EXCEPT !.intx = TRUE]

\* lines 202-205
Begin(s, fp) ==
    LET t == sysdb_transaction_start(s, fp)
    IN  IF t.ret # EOK THEN [t EXCEPT !.done = TRUE] ELSE [t EXCEPT !.intx = TRUE]

\* lines 223-237: delete every entry of res, stop at the first failure
RECURSIVE DeleteCorrupt(_, _, _)
DeleteCorrupt(s, fp, i) ==
    IF s.done \/ i > Len(s.res) THEN s
    ELSE DeleteCorrupt(DeleteOrDone(s, fp, s.res[i]), fp, i + 1)

\* whether line 245 sends the one owner of the port to deletion
OwnerReplaced(name, primary_name) == name = NoName \/ name # primary_name

\* lines 242-270: one entry owns the port; a failed delete is only logged
ReplaceOwner(s, fp, primary_name) ==
    IF OwnerReplaced(s.wdb[s.res[1]].name, primary_name)
    THEN sysdb_delete_entry(s, fp, s.res[1], TRUE)
    ELSE s

\* PortRepair taking several entries on the port for one: only the first is looked at
PortRepairFirstOnly(s, fp, primary_name) ==
    IF s.done \/ s.ret = ENOENT THEN s
    ELSE ReplaceOwner(s, fp, primary_name)

\* lines 217-272
PortRepair(s, fp, primary_name) ==
    IF s.done \/ s.ret = ENOENT THEN s
    ELSE IF Len(s.res) # 1 THEN DeleteCorrupt(s, fp, 1)
    ELSE ReplaceOwner(s, fp, primary_name)

\* lines 214-273
PortPass(s, fp, primary_name, port, ord) ==
    IF s.done THEN s
    ELSE PortRepair(OrDoneUnlessNoent(sysdb_getservbyport(s, fp, port, NoProto, ord)),
                    fp, primary_name)

\* lines 314-343: a second entry with the name deletes both and forgets the target
UpdateTarget(s, fp, dn) ==
    IF s.upd # NoDn
    THEN LET u == DeleteOrDone(DeleteOrDone(s, fp, s.upd), fp, dn)
         IN  IF u.done THEN u ELSE [u EXCEPT !.upd = NoDn]
    ELSE [s EXCEPT !.upd = dn]

\* lines 288-354: one entry found by name
NameStep(s, fp, primary_name, dn) ==
    IF s.wdb[dn].name = NoName THEN DeleteOrDone(s, fp, dn)
    ELSE IF s.wdb[dn].name = primary_name THEN UpdateTarget(s, fp, dn)
    ELSE OrDone(sysdb_svc_remove_alias(s, fp, dn, primary_name))

\* lines 284-355: the loop over the entries found by name
RECURSIVE NameLoop(_, _, _, _)
NameLoop(s, fp, primary_name, i) ==
    IF s.done \/ s.ret = ENOENT \/ i > Len(s.res) THEN s
    ELSE NameLoop(NameStep(s, fp, primary_name, s.res[i]), fp, primary_name, i + 1)

\* lines 280-357
NamePass(s, fp, primary_name, ord) ==
    IF s.done THEN s
    ELSE NameLoop(OrDoneUnlessNoent(sysdb_getservbyname(s, fp, primary_name, NoProto, ord)),
                  fp, primary_name, 1)

\* lines 359-367
Apply(s, fp, primary_name, port, aliases, protocols, wall) ==
    IF s.done THEN s
    ELSE IF s.upd # NoDn
    THEN OrDone([sysdb_svc_update(s, fp, s.upd, port, aliases, protocols)
                    EXCEPT !.path = "update"])
    ELSE OrDone([sysdb_svc_add(s, fp, primary_name, port, aliases, protocols, wall)
                    EXCEPT !.path = "add"])

\* lines 369-384
Timestamps(s, fp, cache_timeout, now) ==
    IF s.done THEN s ELSE OrDone(SetTimes(s, fp, cache_timeout, now))

\* in_transaction is cleared when the commit succeeded
CommitClears(t) == IF t.ret = EOK THEN [t EXCEPT !.intx = FALSE] ELSE t

\* lines 386-387
Commit(s, fp) ==
    IF s.done THEN s ELSE CommitClears(sysdb_transaction_commit(s, fp))

\* lines 199-398; ord is the order searches return entries in, wall is time(NULL)
sysdb_store_service(d, fp, cancelFails, ord, wall, primary_name, port, aliases, protocols, cache_timeout, now) ==
    Finish(Commit(Timestamps(Apply(NamePass(PortPass(Begin(Start(d), fp),
                                                     fp, primary_name, port, ord),
                                            fp, primary_name, ord),
                                   fp, primary_name, port, aliases, protocols, wall),
                             fp, cache_timeout, now),
                  fp),
           cancelFails)

----------------------------------------------------------------------------
(* sysdb_svc_delete                                                        *)

\* lines 643-646; when the start fails in_transaction stays unassigned
BeginDelete(s, fp, uninit) ==
    LET t == sysdb_transaction_start(s, fp)
    IN  IF t.ret # EOK THEN [t EXCEPT !.done = TRUE, !.intx = uninit]
        ELSE [t EXCEPT !.intx = TRUE]

\* lines 670-673: delete every entry found, stop at the first failure
RECURSIVE DeleteFound(_, _, _)
DeleteFound(s, fp, i) ==
    IF s.done \/ i > Len(s.res) THEN s
    ELSE DeleteFound(OrDone(sysdb_delete_entry(s, fp, s.res[i], FALSE)), fp, i + 1)

\* NoentIsDone with ENOENT handed to the caller
NoentIsError(t) ==
    IF t.ret # EOK THEN [t EXCEPT !.done = TRUE] ELSE t

\* lines 650-655 and 658-663: ENOENT is success, and leaves through `done`
NoentIsDone(t) ==
    IF t.ret # EOK /\ t.ret # ENOENT THEN [t EXCEPT !.done = TRUE]
    ELSE IF t.ret = ENOENT THEN [t EXCEPT !.ret = EOK, !.done = TRUE]
    ELSE t

\* FindVictims keeping only the first entry the search returned
FindFirstVictim(s, fp, ord, name, port, proto) ==
    IF s.done THEN s
    ELSE IF name # NoName
    THEN [NoentIsDone(sysdb_getservbyname(s, fp, name, proto, ord))
             EXCEPT !.res = SelectSeq(@, LAMBDA dn : dn = ord[1])]
    ELSE [NoentIsDone(sysdb_getservbyport(s, fp, port, proto, ord))
             EXCEPT !.res = SelectSeq(@, LAMBDA dn : dn = ord[1])]

\* lines 648-664
FindVictims(s, fp, ord, name, port, proto) ==
    IF s.done THEN s
    ELSE IF name # NoName
    THEN NoentIsDone(sysdb_getservbyname(s, fp, name, proto, ord))
    ELSE NoentIsDone(sysdb_getservbyport(s, fp, port, proto, ord))

\* lines 675-676: in_transaction is cleared whatever the commit returned
CommitDelete(s, fp) ==
    IF s.done THEN s ELSE [sysdb_transaction_commit(s, fp) EXCEPT !.intx = FALSE]

\* lines 632-692; uninit is what the unassigned in_transaction reads as
sysdb_svc_delete(d, fp, cancelFails, uninit, ord, name, port, proto) ==
    Finish(CommitDelete(DeleteFound(FindVictims(BeginDelete(Start(d), fp, uninit),
                                                fp, ord, name, port, proto),
                                    fp, 1),
                        fp),
           cancelFails)

----------------------------------------------------------------------------
(* The callers                                                             *)

\* the store once the call is over: what the call committed, else as before
Committed(d, r) == IF r.cmt THEN r.wdb ELSE d

\* the failure plans of a call that issues n primitives when none fails: at most
\* F of them fail (a failure the code only logs may add one primitive to the call)
Plans(n, F) == {f \in SUBSET (1 .. (n + 1)) : Cardinality(f) <= F}

\* the ports callers pass: two valid ones and a non-positive one
Ports == {0, 1, 2}
Nows == 1 .. MaxNow
Ttls == 0 .. MaxTtl
AliasSets == SUBSET AliasVals

\* the entries a search of the call can return: only their order is the Store's choice
StoreSearched(d, name, port) ==
    ByPortSet(d, port, NoProto) \cup ByNameSet(d, name, NoProto)

DeleteSearched(d, name, port, proto) ==
    IF name # NoName THEN ByNameSet(d, name, proto) ELSE ByPortSet(d, port, proto)

\* whether the call ended by issuing cancel, whose outcome is then the Store's
Cancelled(r) == r.log # <<>> /\ r.log[Len(r.log)][1] = "cancel"

CancelOutcomes(r) == IF Cancelled(r) THEN BOOLEAN ELSE {FALSE}

\* what the unassigned in_transaction of sysdb_svc_delete may read as
UninitOutcomes(fp) == IF 1 \in fp THEN BOOLEAN ELSE {FALSE}

NoCall ==
    [op |-> "none", name |-> NoName, port |-> 0, aliases |-> {}, protos |-> {},
     ttl |-> 0, now |-> 0, proto |-> NoProto, ret |-> EOK, log |-> <<>>,
     path |-> "", rep |-> FALSE, res |-> <<>>]

StoreResult(r, rep, name, port, aliases, protos, ttl, now) ==
    [op |-> "store", name |-> name, port |-> port, aliases |-> aliases,
     protos |-> protos, ttl |-> ttl, now |-> now, proto |-> NoProto,
     ret |-> r.ret, log |-> r.log, path |-> r.path, rep |-> rep, res |-> <<>>]

RemoveResult(r, name, port, proto) ==
    [NoCall EXCEPT !.op = "remove", !.name = name, !.port = port,
                   !.proto = proto, !.ret = r.ret, !.log = r.log]

\* one sysdb_store_service call and what it leaves, under every outcome of the Store
StoreCall(rep, name, port, aliases, protos, ttl, now, WallDom, F) ==
    \E ord \in Orders(StoreSearched(db, name, port)) :
      LET r0 == sysdb_store_service(db, {}, FALSE, ord, 1, name, port, aliases, protos, ttl, now)
      IN  \E fp \in Plans(r0.n, F), wall \in (IF r0.path = "add" THEN WallDom ELSE {1}) :
            LET r1 == sysdb_store_service(db, fp, FALSE, ord, wall, name, port, aliases, protos, ttl, now)
            IN  \E cancelFails \in CancelOutcomes(r1) :
                  LET r == sysdb_store_service(db, fp, cancelFails, ord, wall, name, port, aliases, protos, ttl, now)
                  IN  /\ db' = Committed(db, r)
                      /\ last' = StoreResult(r, rep, name, port, aliases, protos, ttl, now)
                      /\ pc' = "returned"

\* a caller stores one service record
Store(NameDom, NowDom, TtlDom, AliasDom, ProtoDom, F) ==
    /\ pc = "idle"
    /\ \E name \in NameDom, port \in Ports, aliases \in AliasDom,
          protos \in ProtoDom, ttl \in TtlDom, now \in NowDom :
         StoreCall(FALSE, name, port, aliases, protos, ttl, now, NowDom, F)

\* the caller stores the record it just stored once more, `now` not earlier
\* (a third time is a Store of the same arguments after Return)
Refresh(NowDom, F) ==
    /\ pc = "returned"
    /\ last.op = "store"
    /\ last.ret = EOK
    /\ ~last.rep
    /\ \E now \in NowDom :
         /\ now >= last.now
         /\ StoreCall(TRUE, last.name, last.port, last.aliases, last.protos,
                      last.ttl, now, NowDom, F)

\* a caller evicts by name (name given) or by port (name NULL)
Remove(NameDom, ProtoDom, F) ==
    /\ pc = "idle"
    /\ \E name \in NameDom \cup {NoName}, port \in Ports,
          proto \in ProtoDom \cup {NoProto} :
       \E ord \in Orders(DeleteSearched(db, name, port, proto)) :
         /\ name # NoName => port = 0
         /\ LET r0 == sysdb_svc_delete(db, {}, FALSE, FALSE, ord, name, port, proto)
            IN  \E fp \in Plans(r0.n, F) :
                  \E uninit \in UninitOutcomes(fp) :
                    LET r1 == sysdb_svc_delete(db, fp, FALSE, uninit, ord, name, port, proto)
                    IN  \E cancelFails \in CancelOutcomes(r1) :
                          LET r == sysdb_svc_delete(db, fp, cancelFails, uninit, ord, name, port, proto)
                          IN  /\ db' = Committed(db, r)
                              /\ last' = RemoveResult(r, name, port, proto)
                              /\ pc' = "returned"

LookupResult(r, op, name, port, proto) ==
    [NoCall EXCEPT !.op = op, !.name = name, !.port = port, !.proto = proto,
                   !.ret = r.ret, !.log = r.log, !.res = r.res]

\* a caller looks a service up by name; the search is the call's one primitive
GetServByName(NameDom, ProtoDom, F) ==
    /\ pc = "idle"
    /\ \E name \in NameDom, proto \in ProtoDom \cup {NoProto} :
       \E ord \in Orders(ByNameSet(db, name, proto)), fp \in Plans(0, F) :
         /\ db' = db
         /\ last' = LookupResult(sysdb_getservbyname(Start(db), fp, name, proto, ord),
                                 "byname", name, 0, proto)
         /\ pc' = "returned"

\* a caller looks a service up by port
GetServByPort(ProtoDom, F) ==
    /\ pc = "idle"
    /\ \E port \in Ports, proto \in ProtoDom \cup {NoProto} :
       \E ord \in Orders(ByPortSet(db, port, proto)), fp \in Plans(0, F) :
         /\ db' = db
         /\ last' = LookupResult(sysdb_getservbyport(Start(db), fp, port, proto, ord),
                                 "byport", NoName, port, proto)
         /\ pc' = "returned"

\* the caller takes the result and goes on
Return ==
    /\ pc = "returned"
    /\ pc' = "idle"
    /\ last' = NoCall
    /\ db' = db

Init ==
    /\ db = EmptyDb
    /\ last = NoCall
    /\ pc = "idle"

\* timestamps decide no branch of the code: one instant, no timeout
OneNow == {1}
NoTtl == {0}

Next ==
    \/ Store(Names, OneNow, NoTtl, AliasSets, ProtoSets, MaxFails)
    \/ Refresh(OneNow, MaxFails)
    \/ Remove(Names \cup AliasVals, ProtoVals, MaxFails)
    \/ GetServByName(Names \cup AliasVals, ProtoVals, MaxFails)
    \/ GetServByPort(ProtoVals, MaxFails)
    \/ Return

\* the cache from empty, under every call and every Store failure
Spec == Init /\ [][Next]_vars

\* one name, one alias list and one protocol list, with the clock and the
\* timeout varied
NextTime ==
    \/ Store({"a"}, Nows, Ttls, {{}}, {{"tcp"}}, MaxFails)
    \/ Refresh(Nows, MaxFails)
    \/ Remove({"a"}, {"tcp"}, MaxFails)
    \/ Return

SpecTime == Init /\ [][NextTime]_vars

\* entries an out-of-band writer may have left: under any DN, any name or
\* none, either port; stamped as a store at the one instant stamps them
SeedDns == {sysdb_svc_dn("b")} \cup StrayDns
SeedRecs ==
    [name : {"a", "b", NoName}, port : {1, 2}, aliases : {{}, {"b"}},
     protos : {{"tcp"}}, created : {1}, lastUpdate : {1}, expire : {0}]
SeedDbs == UNION {[S -> SeedRecs] : S \in SUBSET SeedDns}

InitSeeded ==
    /\ db \in SeedDbs
    /\ last = NoCall
    /\ pc = "idle"

\* the calls name "b", and one primitive of a call may fail
NextSeeded ==
    \/ Store({"b"}, OneNow, NoTtl, {{}, {"b"}}, {{"tcp"}}, 1)
    \/ Refresh(OneNow, 1)
    \/ Remove({"b"}, {}, 1)
    \/ Return

\* the cache from any seeded content
SpecSeeded == InitSeeded /\ [][NextSeeded]_vars

----------------------------------------------------------------------------
(* Properties                                                              *)

\* the call that just returned is a sysdb_store_service that returned EOK
StoreOk == pc = "returned" /\ last.op = "store" /\ last.ret = EOK

\* the entries of d named name
Named(d, name) == {dn \in DOMAIN d : d[dn].name = name}

\* some primitive other than the cancel failed
AnyFailed(log) == \E i \in 1 .. Len(log) : log[i][1] # "cancel" /\ ~log[i][2]

\* how many primitives op of the log succeeded
Succeeded(log, op) == Cardinality({i \in 1 .. Len(log) : log[i] = <<op, TRUE>>})

PortUnique(d) == \A x, y \in DOMAIN d : d[x].port = d[y].port => x = y

NameUnique(d) == \A x, y \in DOMAIN d : d[x].name = d[y].name => x = y

AliasDisjoint(d) == \A x, y \in DOMAIN d : x # y => d[y].name \notin d[x].aliases

\* the entry r carries the port, aliases and protocols of the last call
CarriesCall(r) ==
    r.port = last.port /\ r.aliases = last.aliases /\ r.protos = last.protos

\* C1: from an empty cache, after every sysdb_store_service that returns EOK no
\* two entries have the same port.
C1_PortUniqueness == StoreOk => PortUnique(db)

\* C2: from an empty cache, after every call of sysdb_store_service and
\* sysdb_svc_delete no two entries have the same name.
C2_NameUniqueness == NameUnique(db)

\* C2 witness: a store that found the name cached and updated it, beside
\* another cached service
C2_Witness ==
    StoreOk /\ last.path = "update" /\ Cardinality(DOMAIN db) = 2

\* C3: after every sysdb_store_service that returns EOK no alias of an entry is
\* the name of another entry, the aliases of the call included.  Stated of the
\* calls in which no Store primitive failed, which are among the calls it covers.
C3_AliasDisjointness ==
    (StoreOk /\ ~AnyFailed(last.log)) => AliasDisjoint(db)

\* C4: a sysdb_store_service call in which a Store primitive failed returns an
\* error and leaves the committed store as it was.
C4_Atomicity ==
    [][(pc' = "returned" /\ last'.op = "store" /\ AnyFailed(last'.log))
          => (last'.ret # EOK /\ db' = db)]_vars

\* C5: a sysdb_store_service call in which a corrective delete failed returns
\* an error, and after the failed delete it issues nothing but the cancel.
C5_FailedDeleteAborts ==
    (pc = "returned" /\ last.op = "store")
       => \A i \in 1 .. Len(last.log) :
             last.log[i] = <<"delete", FALSE>>
                => /\ last.ret # EOK
                   /\ \A j \in (i + 1) .. Len(last.log) : last.log[j][1] = "cancel"

\* C6: after a sysdb_store_service that updated an entry in place and returned
\* EOK, the entry's port, aliases and protocols are those of the call.
C6_UpdateReplaces ==
    (StoreOk /\ last.path = "update")
       => /\ Named(db, last.name) # {}
          /\ \A dn \in Named(db, last.name) : CarriesCall(db[dn])

\* C7: a second sysdb_store_service with the arguments of the first (now not
\* earlier) that returns EOK leaves one entry of that name, carrying the
\* call, and neither adds nor deletes an entry.
C7_Idempotence ==
    [][(pc = "returned" /\ pc' = "returned" /\ last'.ret = EOK)
          => /\ Cardinality(Named(db', last'.name)) = 1
             /\ \A dn \in Named(db', last'.name) :
                   /\ db'[dn].port = last'.port
                   /\ db'[dn].aliases = last'.aliases
                   /\ db'[dn].protos = last'.protos
             /\ DOMAIN db' = DOMAIN db
             /\ Succeeded(last'.log, "delete") = 0]_vars

\* C8: when an entry of another name owns the port, after a
\* sysdb_store_service that returns EOK every entry with that port has the
\* name of the call, and there is one.
C8_NewestWinsPort ==
    [][(/\ pc' = "returned" /\ last'.op = "store" /\ last'.ret = EOK
        /\ \E dn \in DOMAIN db :
              db[dn].port = last'.port /\ db[dn].name # last'.name)
          => /\ ByPortSet(db', last'.port, NoProto) # {}
             /\ \A dn \in ByPortSet(db', last'.port, NoProto) :
                   db'[dn].name = last'.name]_vars

\* C9: when an entry A of another name lists the name of the call as an alias
\* and does not own the port of the call, after a sysdb_store_service that
\* returns EOK A is there with that alias gone and nothing else changed, and
\* the name finds exactly the entries it names, of which there is one.
C9_AliasPromotion ==
    [][(pc' = "returned" /\ last'.op = "store" /\ last'.ret = EOK)
          => /\ \A dn \in DOMAIN db :
                   (/\ db[dn].name # last'.name
                    /\ db[dn].name # NoName
                    /\ last'.name \in db[dn].aliases
                    /\ db[dn].port # last'.port)
                      => /\ dn \in DOMAIN db'
                         /\ db'[dn] = [db[dn] EXCEPT !.aliases = @ \ {last'.name}]
             /\ (\E dn \in DOMAIN db :
                    /\ db[dn].name # last'.name
                    /\ db[dn].name # NoName
                    /\ last'.name \in db[dn].aliases
                    /\ db[dn].port # last'.port)
                   => /\ ByNameSet(db', last'.name, NoProto) = Named(db', last'.name)
                      /\ Cardinality(Named(db', last'.name)) = 1]_vars

\* C9 witness: a store that created its entry after taking the name out of
\* another entry's aliases (two modifies: the alias and the timestamps), the
\* other entry keeping an alias
C9_Witness ==
    /\ StoreOk /\ last.path = "add"
    /\ Succeeded(last.log, "modify") = 2
    /\ \E dn \in DOMAIN db :
          /\ db[dn].name # last.name
          /\ db[dn].aliases # {}
          /\ last.name \notin db[dn].aliases
          /\ db[dn].port # last.port

\* C10: when two or more entries have the name of the call, after a
\* sysdb_store_service that returns EOK exactly one entry has it, and carries
\* the call.
C10_DuplicateNameRepair ==
    [][(/\ pc' = "returned" /\ last'.op = "store" /\ last'.ret = EOK
        /\ Cardinality(Named(db, last'.name)) >= 2)
          => /\ Cardinality(Named(db', last'.name)) = 1
             /\ \A dn \in Named(db', last'.name) :
                   /\ db'[dn].port = last'.port
                   /\ db'[dn].aliases = last'.aliases
                   /\ db'[dn].protos = last'.protos]_vars

\* C11: when two or more entries have the port of the call, after a
\* sysdb_store_service that returns EOK one entry has that port, and it has
\* the name of the call.
C11_DuplicatePortRepair ==
    [][(/\ pc' = "returned" /\ last'.op = "store" /\ last'.ret = EOK
        /\ Cardinality({dn \in DOMAIN db : db[dn].port = last'.port}) >= 2)
          => /\ Cardinality({dn \in DOMAIN db' : db'[dn].port = last'.port}) = 1
             /\ \A dn \in DOMAIN db' :
                   db'[dn].port = last'.port => db'[dn].name = last'.name]_vars

\* a store that returned EOK after its port pass deleted two entries
C11_Witness ==
    /\ StoreOk
    /\ Len(last.log) >= 4
    /\ last.log[3] = <<"delete", TRUE>>
    /\ last.log[4] = <<"delete", TRUE>>
    /\ Cardinality({dn \in DOMAIN db : db[dn].port = last.port}) = 1

\* C12: a sysdb_svc_delete by name, or by a positive port, whose selector
\* matches no entry leaves the cache as it was and never returns ENOENT; it
\* returns EOK unless a Store primitive failed.
C12_DeleteIdempotence ==
    [][(/\ pc' = "returned" /\ last'.op = "remove"
        /\ (last'.name # NoName \/ last'.port > 0)
        /\ DeleteSearched(db, last'.name, last'.port, last'.proto) = {})
          => /\ db' = db
             /\ last'.ret # ENOENT
             /\ (~AnyFailed(last'.log) => last'.ret = EOK)]_vars

\* a sysdb_svc_delete that found nothing in a cache that holds entries
C12_Witness ==
    /\ pc = "returned" /\ last.op = "remove" /\ last.ret = EOK
    /\ (last.name # NoName \/ last.port > 0)
    /\ DOMAIN db # {}
    /\ DeleteSearched(db, last.name, last.port, last.proto) = {}
    /\ Succeeded(last.log, "search") = 1
    /\ Succeeded(last.log, "delete") = 0

\* C13: a sysdb_svc_delete that returns EOK leaves no entry its selector
\* matched and leaves every other entry as it was; one in which a delete
\* failed returns the error of the delete and removes nothing.
C13_RemoveAllOrNothing ==
    [][(pc' = "returned" /\ last'.op = "remove")
          => /\ last'.ret = EOK
                => /\ DOMAIN db' =
                        DOMAIN db \ DeleteSearched(db, last'.name, last'.port, last'.proto)
                   /\ \A dn \in DOMAIN db' : db'[dn] = db[dn]
             /\ (\E i \in 1 .. Len(last'.log) : last'.log[i] = <<"delete", FALSE>>)
                => /\ last'.ret = EIO
                   /\ db' = db]_vars

\* a sysdb_svc_delete that returned EOK, deleted entries and left another
C13_Witness ==
    /\ pc = "returned" /\ last.op = "remove" /\ last.ret = EOK
    /\ Succeeded(last.log, "delete") >= 1
    /\ Succeeded(last.log, "commit") = 1
    /\ DOMAIN db # {}

\* C14: after a sysdb_store_service that returns EOK a search by the name of
\* the call finds an entry, and what it finds has the port and protocols of
\* the call, lastUpdate = now, and cacheExpire = now + cache_timeout when
\* cache_timeout > 0 and 0 when it is 0.
C14_Timestamps ==
    StoreOk
       => /\ ByNameSet(db, last.name, NoProto) # {}
          /\ \A dn \in ByNameSet(db, last.name, NoProto) :
                /\ db[dn].port = last.port
                /\ db[dn].protos = last.protos
                /\ db[dn].lastUpdate = last.now
                /\ last.ttl > 0 => db[dn].expire = last.now + last.ttl
                /\ last.ttl = 0 => db[dn].expire = 0

\* an update in place, later than the creation, with a timeout
C14_Witness ==
    /\ StoreOk /\ last.path = "update" /\ last.ttl > 0
    /\ \E dn \in ByNameSet(db, last.name, NoProto) :
          db[dn].created < db[dn].lastUpdate

\* the DNs in the result of the last lookup
Found == {last.res[i] : i \in 1 .. Len(last.res)}

\* C15: a lookup leaves the cache as it is; when its search did not fail (and
\* the port of a lookup by port is positive) it returns every entry whose
\* name or alias is the name, or whose port is the port, under the protocol
\* rule, each once, and it returns ENOENT exactly when there is none.
C15_LookupResult ==
    [][(pc' = "returned" /\ last'.op \in {"byname", "byport"})
          => /\ db' = db
             /\ (~AnyFailed(last'.log) /\ (last'.op = "byport" => last'.port > 0))
                => LET M == {dn \in DOMAIN db' :
                               /\ last'.proto # NoProto => last'.proto \in db'[dn].protos
                               /\ IF last'.op = "byname"
                                  THEN \/ db'[dn].name = last'.name
                                       \/ last'.name \in db'[dn].aliases
                                  ELSE db'[dn].port = last'.port}
                   IN  /\ {last'.res[i] : i \in 1 .. Len(last'.res)} = M
                       /\ Len(last'.res) = Cardinality(M)
                       /\ (last'.ret = ENOENT) = (M = {})
                       /\ (last'.ret = EOK) = (M # {})]_vars

\* a lookup by name that returned two entries: one by its name, one by an alias
C15_Witness ==
    /\ pc = "returned" /\ last.op = "byname" /\ last.ret = EOK
    /\ Len(last.res) = 2
    /\ \E dn \in Found : db[dn].name = last.name
    /\ \E dn \in Found : db[dn].name # last.name /\ last.name \in db[dn].aliases

\* C16: in a sysdb_store_service or sysdb_svc_delete whose transaction was
\* begun, when a later primitive other than the cancel fails, the call issues
\* the cancel after it, as its last primitive, and returns an error.  Stated
\* of every failing primitive but the corrective deletes of
\* sysdb_store_service, which C5 is about.
C16_CancelOnFailure ==
    (pc = "returned" /\ last.op \in {"store", "remove"})
       => \A i \in 2 .. Len(last.log) :
             (/\ last.log[1] = <<"begin", TRUE>>
              /\ last.log[i][1] # "cancel"
              /\ ~(last.op = "store" /\ last.log[i][1] = "delete")
              /\ ~last.log[i][2])
                => /\ last.log[Len(last.log)][1] = "cancel"
                   /\ last.ret # EOK

ReadsAndWrites == {"search", "add", "modify", "delete"}

\* C18: a sysdb_store_service or sysdb_svc_delete starts with
\* sysdb_transaction_start; every search, add, modify and delete it issues
\* comes after a start that succeeded and before any commit or cancel; when
\* the start fails it issues none of them and returns an error.
C18_InsideTransaction ==
    (pc = "returned" /\ last.op \in {"store", "remove"})
       => /\ Len(last.log) >= 1
          /\ last.log[1][1] = "begin"
          /\ \A i \in 1 .. Len(last.log) :
                last.log[i][1] \in ReadsAndWrites
                   => /\ last.log[1] = <<"begin", TRUE>>
                      /\ \A j \in 1 .. (i - 1) :
                            last.log[j][1] \notin {"commit", "cancel"}
          /\ last.log[1] = <<"begin", FALSE>> => last.ret # EOK

\* a sysdb_store_service whose sysdb_transaction_start failed, entries cached
C18_Witness ==
    /\ pc = "returned" /\ last.op = "store"
    /\ last.log = << <<"begin", FALSE>> >>
    /\ last.ret = EIO
    /\ DOMAIN db # {}

\* C19: when one entry has the name of the call and sysdb_store_service
\* updates it in place and returns EOK, the entry is still there under its DN
\* with the creation time it had.
C19_CreatedAtKept ==
    [][(/\ pc' = "returned" /\ last'.op = "store" /\ last'.ret = EOK
        /\ last'.path = "update"
        /\ Cardinality(Named(db, last'.name)) = 1)
          => \A dn \in Named(db, last'.name) :
                /\ dn \in DOMAIN db'
                /\ db'[dn].name = last'.name
                /\ db'[dn].created = db[dn].created]_vars

\* an update in place that wrote a lastUpdate other than the creation time
C19_Witness ==
    /\ StoreOk /\ last.path = "update"
    /\ \E dn \in Named(db, last.name) :
          /\ db[dn].lastUpdate = last.now
          /\ db[dn].created # last.now

\* the positions of the log that end a transaction: a commit that succeeded,
\* or a cancel
Ends(log) ==
    {i \in 1 .. Len(log) : log[i] = <<"commit", TRUE>> \/ log[i][1] = "cancel"}

\* C20: in a sysdb_store_service or sysdb_svc_delete whose
\* sysdb_transaction_start succeeded, one primitive ends the transaction (a
\* commit that succeeds, or a cancel) and it is the last of the call, so a
\* commit that failed is followed by the cancel; when the start failed the
\* call issues no commit and no cancel.
C20_TransactionBalance ==
    (pc = "returned" /\ last.op \in {"store", "remove"})
       => IF last.log[1] = <<"begin", TRUE>>
          THEN Ends(last.log) = {Len(last.log)}
          ELSE \A i \in 1 .. Len(last.log) :
                  last.log[i][1] \notin {"commit", "cancel"}

\* C21: with a port that is not positive, a lookup by port returns EINVAL
\* and issues no primitive; a sysdb_store_service, and a sysdb_svc_delete by
\* port, leaves the cache as it was and, once its transaction is begun,
\* returns EINVAL and issues the cancel and nothing else.
C21_NonPositivePort ==
    [][(pc' = "returned" /\ last'.port <= 0)
          => /\ last'.op = "byport"
                => last'.ret = EINVAL /\ last'.log = <<>> /\ db' = db
             /\ (last'.op = "store" \/ (last'.op = "remove" /\ last'.name = NoName))
                => /\ db' = db
                   /\ last'.log[1] = <<"begin", TRUE>>
                      => /\ last'.ret = EINVAL
                         /\ Len(last'.log) = 2
                         /\ last'.log[2][1] = "cancel"]_vars

\* a sysdb_store_service with port 0 that was refused, entries cached
C21_Witness ==
    /\ pc = "returned" /\ last.op = "store" /\ last.port = 0
    /\ last.ret = EINVAL
    /\ last.log = << <<"begin", TRUE>>, <<"cancel", TRUE>> >>
    /\ DOMAIN db # {}

====
